---- MODULE Spec2Model ----
(***************************************************************************)
(* A model of fastapi_crudrouter/core/_utils.py: the primary-key type      *)
(* resolver get_pk_type, the create-schema builder schema_factory, the     *)
(* error builder create_query_validation_exception and the pagination      *)
(* dependency made by pagination_factory.                                  *)
(*                                                                         *)
(* Python values are modelled with their type kept: an Optional[int] is    *)
(* NoneValue or IntValue(n), a dict literal is PyDict(f), a list literal   *)
(* is PyList(s).  A call either returns a value or raises an exception.    *)
(***************************************************************************)
EXTENDS Integers, Sequences, FiniteSets, TLC

VARIABLES
    installed,  \* TRUE once pagination_factory has built a validator
    max_limit,  \* the max_limit the validator's closure captured
    call,       \* the invocation in progress or last finished: [fn |-> ..., ...]
    pc,         \* position inside schema_factory; "idle" outside of it
    attempts,   \* the create_model calls made by the current schema_factory call
    outcome     \* what the last finished invocation returned or raised

vars == <<installed, max_limit, call, pc, attempts, outcome>>

----------------------------------------------------------------------------
(* Bounds of the model.                                                    *)

\* integers passed as skip, limit and max_limit range over -MaxInt..MaxInt
MaxInt == 3

\* a schema descriptor has at most MaxFields fields
MaxFields == 2

Ints == (0 - MaxInt)..MaxInt

----------------------------------------------------------------------------
(* Python values.                                                          *)

NoneValue == [isNone |-> TRUE]

IntValue(n) == [isNone |-> FALSE, val |-> n]

OptInts == {NoneValue} \cup {IntValue(n) : n \in Ints}

\* an argument the caller left out, or one the caller passed
Omitted == [given |-> FALSE]

Passed(v) == [given |-> TRUE, value |-> v]

PyDict(f) == [type |-> "dict", items |-> f]

PyList(s) == [type |-> "list", items |-> s]

NoOutcome == [kind |-> "none"]

Returned(v) == [kind |-> "return", value |-> v]

Raised(e) == [kind |-> "raise", exc |-> e]

\* Python's truth value of an Optional[int]: None and 0 are false
Truthy(v) == (~v.isNone) /\ v.val # 0

----------------------------------------------------------------------------
(* create_query_validation_exception and the pagination validator.         *)

HTTPException(status_code, detail) ==
    [cls |-> "HTTPException", status_code |-> status_code, detail |-> detail]

\* mutant: the kind tag follows the parameter instead of being the literal
create_query_validation_exception_tagByField(field, msg) ==
    HTTPException(
        422,
        PyDict([detail |->
            PyList(<< PyDict([loc  |-> PyList(<<"query", field>>),
                              msg  |-> msg,
                              type |-> IF field = "skip" THEN "type_error.integer"
                                       ELSE "value_error.number.not_gt"]) >>)]))

create_query_validation_exception(field, msg) ==
    HTTPException(
        422,
        PyDict([detail |->
            PyList(<< PyDict([loc  |-> PyList(<<"query", field>>),
                              msg  |-> msg,
                              type |-> "type_error.integer"]) >>)]))

SkipMsg == "skip query parameter must be greater or equal to zero"

LimitPositiveMsg == "limit query parameter must be greater then zero"

\* f"limit query parameter must be less then {max_limit}"
LimitMaxMsg(m) == "limit query parameter must be less then " \o ToString(m.val)

\* mutant: the limit checks run before the skip check
pagination_limitFirst(m, skip, limit) ==
    IF (~limit.isNone) /\ limit.val <= 0
    THEN Raised(create_query_validation_exception("limit", LimitPositiveMsg))
    ELSE IF (~limit.isNone) /\ Truthy(m) /\ m.val < limit.val
    THEN Raised(create_query_validation_exception("limit", LimitMaxMsg(m)))
    ELSE IF skip < 0
    THEN Raised(create_query_validation_exception("skip", SkipMsg))
    ELSE Returned([skip |-> skip, limit |-> limit])

\* mutant: the maximum check runs before the positivity check
pagination_maxFirst(m, skip, limit) ==
    IF skip < 0
    THEN Raised(create_query_validation_exception("skip", SkipMsg))
    ELSE IF (~limit.isNone) /\ Truthy(m) /\ m.val < limit.val
    THEN Raised(create_query_validation_exception("limit", LimitMaxMsg(m)))
    ELSE IF (~limit.isNone) /\ limit.val <= 0
    THEN Raised(create_query_validation_exception("limit", LimitPositiveMsg))
    ELSE Returned([skip |-> skip, limit |-> limit])

\* mutant: the maximum check is strict the other way, so limit = max_limit fails
pagination_maxExclusive(m, skip, limit) ==
    IF skip < 0
    THEN Raised(create_query_validation_exception("skip", SkipMsg))
    ELSE IF (~limit.isNone) /\ limit.val <= 0
    THEN Raised(create_query_validation_exception("limit", LimitPositiveMsg))
    ELSE IF (~limit.isNone) /\ Truthy(m) /\ m.val <= limit.val
    THEN Raised(create_query_validation_exception("limit", LimitMaxMsg(m)))
    ELSE Returned([skip |-> skip, limit |-> limit])

\* the body of pagination, on the bound parameters: skip an int, limit an
\* Optional[int], m the captured max_limit
pagination(m, skip, limit) ==
    IF skip < 0
    THEN Raised(create_query_validation_exception("skip", SkipMsg))
    ELSE IF (~limit.isNone) /\ limit.val <= 0
    THEN Raised(create_query_validation_exception("limit", LimitPositiveMsg))
    ELSE IF (~limit.isNone) /\ Truthy(m) /\ m.val < limit.val
    THEN Raised(create_query_validation_exception("limit", LimitMaxMsg(m)))
    ELSE Returned([skip |-> skip, limit |-> limit])

\* the parameter defaults: skip: int = 0, limit: Optional[int] = max_limit
BindSkip(skipArg) == IF skipArg.given THEN skipArg.value ELSE 0

\* mutant: limit defaults to None instead of the captured max_limit
BindLimit_defaultNone(m, limitArg) == IF limitArg.given THEN limitArg.value ELSE NoneValue

BindLimit(m, limitArg) == IF limitArg.given THEN limitArg.value ELSE m

\* max_limit: Optional[int] = None
BindMaxLimit(maxArg) == IF maxArg.given THEN maxArg.value ELSE NoneValue

SkipArgs == {Omitted} \cup {Passed(n) : n \in Ints}

LimitArgs == {Omitted} \cup {Passed(v) : v \in OptInts}

MaxLimitArgs == {Omitted} \cup {Passed(v) : v \in OptInts}

\* pagination_factory(max_limit): builds the validator over max_limit
PaginationFactory(maxArg) ==
    /\ pc \in {"idle", "done"}
    /\ installed' = TRUE
    /\ max_limit' = BindMaxLimit(maxArg)
    /\ call' = [fn |-> "pagination_factory", max_limit |-> maxArg]
    /\ outcome' = Returned("Depends(pagination)")
    /\ pc' = "idle"
    /\ attempts' = <<>>

\* one request: the validator runs on the query parameters
Pagination(skipArg, limitArg) ==
    /\ pc \in {"idle", "done"}
    /\ installed
    /\ call' = [fn |-> "pagination", skip |-> skipArg, limit |-> limitArg]
    /\ outcome' = pagination(max_limit, BindSkip(skipArg),
                             BindLimit(max_limit, limitArg))
    /\ pc' = "idle"
    /\ attempts' = <<>>
    /\ UNCHANGED <<installed, max_limit>>

Fields == {"skip", "limit"}

Messages == {SkipMsg, LimitPositiveMsg, "value is not a valid integer"}

\* a direct call of the error builder
CreateQueryValidationException(field, msg) ==
    /\ pc \in {"idle", "done"}
    /\ call' = [fn |-> "create_query_validation_exception", field |-> field, msg |-> msg]
    /\ outcome' = Returned(create_query_validation_exception(field, msg))
    /\ pc' = "idle"
    /\ attempts' = <<>>
    /\ UNCHANGED <<installed, max_limit>>

Init ==
    /\ installed = FALSE
    /\ max_limit = NoneValue
    /\ call = [fn |-> "none"]
    /\ pc = "idle"
    /\ attempts = <<>>
    /\ outcome = NoOutcome

NextPagination ==
    \/ \E maxArg \in MaxLimitArgs : PaginationFactory(maxArg)
    \/ \E skipArg \in SkipArgs, limitArg \in LimitArgs : Pagination(skipArg, limitArg)
    \/ \E field \in Fields, msg \in Messages : CreateQueryValidationException(field, msg)

SpecPagination == Init /\ [][NextPagination]_vars

----------------------------------------------------------------------------
(* Schema descriptors.                                                     *)

FieldNamePool == <<"id", "name", "price", "tags", "owner">>

FieldNames == {FieldNamePool[i] : i \in 1..MaxFields}

\* a primary-key name no descriptor of the model has
ForeignName == "uuid"

Types == {"int", "str"}

ClassNames == {"Potato", "Carrot"}

\* the dicts with keys among FieldNames and values in V
DictsInto(V) == UNION {[S -> V] : S \in SUBSET FieldNames}

EmptyDict == [n \in {} |-> "int"]

\* model_fields values: a FieldInfo with its annotation; required is FALSE
\* for a field declared with a default
FieldInfos == [annotation : Types, required : BOOLEAN]

\* legacy __fields__: each ModelField is stored under its own name
LegacyDicts ==
    {[n \in DOMAIN t |-> [name |-> n, type_ |-> t[n]]] : t \in DictsInto(Types)}

\* A descriptor: cls_name is __name__, model_fields and legacy_fields
\* (__fields__) are present only when the has_ flag says so (hasattr), and
\* type_hints is what get_type_hints reports.
Descriptor(cls_name, has_mf, mf, has_lf, lf, hints) ==
    [cls_name |-> cls_name,
     has_model_fields |-> has_mf, model_fields |-> mf,
     has_legacy_fields |-> has_lf, legacy_fields |-> lf,
     type_hints |-> hints]

\* the descriptors handed to schema_factory, which never reads type_hints
FactorySchemas ==
    {Descriptor(c, TRUE, mf, FALSE, EmptyDict, EmptyDict) :
        c \in ClassNames, mf \in DictsInto(FieldInfos)}
    \cup {Descriptor(c, FALSE, EmptyDict, TRUE, lf, EmptyDict) :
        c \in ClassNames, lf \in LegacyDicts}
    \cup {Descriptor(c, TRUE, mf, TRUE, lf, EmptyDict) :
        c \in ClassNames, mf \in DictsInto(FieldInfos), lf \in LegacyDicts}
    \cup {Descriptor(c, FALSE, EmptyDict, FALSE, EmptyDict, EmptyDict) :
        c \in ClassNames}

\* the descriptors handed to get_pk_type, which never reads __fields__
PkSchemas ==
    {Descriptor(c, TRUE, mf, FALSE, EmptyDict, hints) :
        c \in ClassNames, mf \in DictsInto(FieldInfos), hints \in DictsInto(Types)}
    \cup {Descriptor(c, FALSE, EmptyDict, FALSE, EmptyDict, hints) :
        c \in ClassNames, hints \in DictsInto(Types)}

PkFieldNames == FieldNames \cup {ForeignName}

----------------------------------------------------------------------------
(* get_pk_type.                                                            *)

IntType == "int"

\* mutant: the type hints are consulted before model_fields
get_pk_type_hintsFirst(schema, pk_field) ==
    LET model_fields == IF schema.has_model_fields THEN schema.model_fields
                        ELSE EmptyDict
    IN  IF pk_field \in DOMAIN schema.type_hints
        THEN schema.type_hints[pk_field]
        ELSE IF DOMAIN model_fields # {} /\ pk_field \in DOMAIN model_fields
        THEN model_fields[pk_field].annotation
        ELSE IntType

get_pk_type(schema, pk_field) ==
    LET model_fields == IF schema.has_model_fields THEN schema.model_fields
                        ELSE EmptyDict
    IN  IF DOMAIN model_fields # {} /\ pk_field \in DOMAIN model_fields
        THEN model_fields[pk_field].annotation
        ELSE IF pk_field \in DOMAIN schema.type_hints
        THEN schema.type_hints[pk_field]
        ELSE IntType

\* one call; a behaviour of SpecPkType follows a single call from Init
GetPkType(schema, pk_field) ==
    /\ pc = "idle"
    /\ call' = [fn |-> "get_pk_type", schema |-> schema, pk_field |-> pk_field]
    /\ outcome' = Returned(get_pk_type(schema, pk_field))
    /\ pc' = "idle"
    /\ attempts' = <<>>
    /\ UNCHANGED <<installed, max_limit>>

\* a call with its inputs drawn; the guard stands ahead of the inputs so
\* that they are drawn only where a call can start
PkTypeCall ==
    /\ call.fn = "none"
    /\ \E schema \in PkSchemas, pk_field \in PkFieldNames : GetPkType(schema, pk_field)

NextPkType == PkTypeCall

SpecPkType == Init /\ [][NextPkType]_vars

----------------------------------------------------------------------------
(* schema_factory.                                                         *)

\* the ... of a field definition (annotation, ...): the field is required
Ellipsis == "..."

\* mutant: the primary key is not left out
SchemaFields_keepPk(schema_cls, pk_field_name) ==
    IF schema_cls.has_model_fields
    THEN [n \in DOMAIN schema_cls.model_fields |->
             <<schema_cls.model_fields[n].annotation, Ellipsis>>]
    ELSE IF schema_cls.has_legacy_fields
    THEN [n \in {schema_cls.legacy_fields[k].name : k \in DOMAIN schema_cls.legacy_fields} |->
             <<(CHOOSE f \in {schema_cls.legacy_fields[k] : k \in DOMAIN schema_cls.legacy_fields} :
                    f.name = n).type_, Ellipsis>>]
    ELSE EmptyDict

\* the dict fields: from model_fields when the class has it, else from the
\* values of __fields__ when the class has that, else empty
SchemaFields(schema_cls, pk_field_name) ==
    IF schema_cls.has_model_fields
    THEN [n \in DOMAIN schema_cls.model_fields \ {pk_field_name} |->
             <<schema_cls.model_fields[n].annotation, Ellipsis>>]
    ELSE IF schema_cls.has_legacy_fields
    THEN [n \in {schema_cls.legacy_fields[k].name : k \in DOMAIN schema_cls.legacy_fields}
                    \ {pk_field_name} |->
             <<(CHOOSE f \in {schema_cls.legacy_fields[k] : k \in DOMAIN schema_cls.legacy_fields} :
                    f.name = n).type_, Ellipsis>>]
    ELSE EmptyDict

\* name = schema_cls.__name__ + name
SchemaName(schema_cls, name) == schema_cls.cls_name \o name

\* pk_field_name: str = "id", name: str = "Create"
BindPkFieldName(pkArg) == IF pkArg.given THEN pkArg.value ELSE "id"

BindName(nameArg) == IF nameArg.given THEN nameArg.value ELSE "Create"

PkArgs == {Omitted} \cup {Passed(n) : n \in PkFieldNames}

NameArgs == {Omitted, Passed("Update")}

\* What pydantic's create_model does with a name and field definitions: it
\* returns the model of that name, each (annotation, ...) definition a
\* required field, or it raises.  Which of the two a given calling
\* convention does depends on the installed pydantic.
CreatedModel(name, fields) ==
    Descriptor(name, TRUE,
               [n \in DOMAIN fields |->
                   [annotation |-> fields[n][1], required |-> fields[n][2] = Ellipsis]],
               FALSE, EmptyDict,
               [n \in DOMAIN fields |-> fields[n][1]])

ErrorClasses == {"TypeError", "ValueError"}

CreateModelError(cls, convention) == [cls |-> cls, raised_by |-> convention]

CreateModelResults(convention, name, fields) ==
    {Returned(CreatedModel(name, fields))}
    \cup {Raised(CreateModelError(c, convention)) : c \in ErrorClasses}

\* mutant: a bare except, which catches every error
Caught_everything(exc) == TRUE

\* except TypeError
Caught(exc) == exc.cls = "TypeError"

\* lines 45-62: the field definitions and the name are computed; a
\* behaviour of SpecSchemaFactory follows a single call from Init
SchemaFactoryCall(schema_cls, pkArg, nameArg) ==
    /\ pc = "idle"
    /\ call' = [fn |-> "schema_factory",
                schema_cls |-> schema_cls,
                pk_field_name |-> pkArg,
                name_arg |-> nameArg,
                fields |-> SchemaFields(schema_cls, BindPkFieldName(pkArg)),
                name |-> SchemaName(schema_cls, BindName(nameArg))]
    /\ pc' = "create_model_v2"
    /\ attempts' = <<>>
    /\ outcome' = NoOutcome
    /\ UNCHANGED <<installed, max_limit>>

\* line 67: create_model(name, **fields)
CreateModelV2 ==
    /\ pc = "create_model_v2"
    /\ \E r \in CreateModelResults("positional", call.name, call.fields) :
        /\ attempts' = Append(attempts, [convention |-> "positional", result |-> r])
        /\ IF r.kind = "raise" /\ Caught(r.exc)
           THEN pc' = "create_model_v1" /\ outcome' = outcome
           ELSE pc' = "done" /\ outcome' = r
    /\ UNCHANGED <<installed, max_limit, call>>

\* line 70: create_model(__model_name=name, **fields), inside the handler
CreateModelV1 ==
    /\ pc = "create_model_v1"
    /\ \E r \in CreateModelResults("__model_name", call.name, call.fields) :
        /\ attempts' = Append(attempts, [convention |-> "__model_name", result |-> r])
        /\ pc' = "done"
        /\ outcome' = r
    /\ UNCHANGED <<installed, max_limit, call>>

\* a call with its inputs drawn; the guard stands ahead of the inputs so
\* that they are drawn only where a call can start
SchemaFactoryEntry ==
    /\ call.fn = "none"
    /\ \E schema_cls \in FactorySchemas, pkArg \in PkArgs, nameArg \in NameArgs :
           SchemaFactoryCall(schema_cls, pkArg, nameArg)

NextSchemaFactory ==
    \/ SchemaFactoryEntry
    \/ CreateModelV2
    \/ CreateModelV1

SpecSchemaFactory == Init /\ [][NextSchemaFactory]_vars

----------------------------------------------------------------------------
(* The pagination validator and the error builder: what is checked.        *)

\* the parameters of the pagination call of this state, after defaults
CallSkip == IF call.skip.given THEN call.skip.value ELSE 0

CallLimit == IF call.limit.given THEN call.limit.value ELSE max_limit

PaginationDone == call.fn = "pagination"

\* the single entry of an error's payload, and its parts
ErrEntry(e) == e.detail.items.detail.items[1].items

ErrField(e) == ErrEntry(e).loc.items[2]

ErrMsg(e) == ErrEntry(e).msg

RaisedFor(field, msg) ==
    /\ outcome.kind = "raise"
    /\ ErrField(outcome.exc) = field
    /\ ErrMsg(outcome.exc) = msg

\* C1: every successful result {skip, limit} has skip >= 0, limit > 0 when
\* limit is present, and limit <= max_limit when a maximum is configured,
\* whatever integer the maximum is.
C1_ResultWithinBounds ==
    (PaginationDone /\ outcome.kind = "return") =>
        /\ outcome.value.skip >= 0
        /\ (~outcome.value.limit.isNone) => outcome.value.limit.val > 0
        /\ ((~max_limit.isNone) /\ ~outcome.value.limit.isNone)
               => outcome.value.limit.val <= max_limit.val

\* C2: a negative skip fails with the "skip" error, whatever limit and the
\* maximum are: the skip check wins over any limit violation.
C2_NegativeSkipFailsFirst ==
    (PaginationDone /\ CallSkip < 0) => RaisedFor("skip", SkipMsg)

C2_Witness ==
    /\ PaginationDone
    /\ CallSkip < 0
    /\ ~CallLimit.isNone
    /\ CallLimit.val <= 0
    /\ ~max_limit.isNone
    /\ RaisedFor("skip", SkipMsg)

\* C3: with skip >= 0, a limit given and positive, and a maximum configured
\* that the limit exceeds, the call fails with the "limit" error whose
\* message carries the maximum, for every integer maximum.
C3_LimitAboveMaxFails ==
    ( /\ PaginationDone
      /\ CallSkip >= 0
      /\ ~CallLimit.isNone
      /\ ~max_limit.isNone
      /\ CallLimit.val > 0
      /\ CallLimit.val > max_limit.val )
    => RaisedFor("limit", LimitMaxMsg(max_limit))

\* C4: with skip >= 0 and a limit given that is <= 0, the call fails with
\* the "limit" error "must be greater then zero", whatever the maximum is.
C4_NonPositiveLimitFails ==
    (PaginationDone /\ CallSkip >= 0 /\ (~CallLimit.isNone) /\ CallLimit.val <= 0)
        => RaisedFor("limit", LimitPositiveMsg)

C4_Witness ==
    /\ PaginationDone
    /\ CallSkip >= 0
    /\ ~CallLimit.isNone
    /\ CallLimit.val < 0
    /\ ~max_limit.isNone
    /\ max_limit.val < CallLimit.val
    /\ RaisedFor("limit", LimitPositiveMsg)

\* C5: when no failure condition holds the call returns exactly the given
\* skip and the given limit, unaltered; a limit equal to the maximum passes.
C5_SuccessReturnsInputs ==
    ( /\ PaginationDone
      /\ CallSkip >= 0
      /\ \/ CallLimit.isNone
         \/ /\ CallLimit.val > 0
            /\ (max_limit.isNone \/ CallLimit.val <= max_limit.val) )
    => outcome = Returned([skip |-> CallSkip, limit |-> CallLimit])

C5_Witness ==
    /\ PaginationDone
    /\ call.limit.given
    /\ CallSkip > 0
    /\ ~CallLimit.isNone
    /\ CallLimit = max_limit
    /\ outcome = Returned([skip |-> CallSkip, limit |-> max_limit])

\* the error of this state: the one the builder returned or the validator raised
ErrorMade ==
    \/ call.fn = "create_query_validation_exception"
    \/ PaginationDone /\ outcome.kind = "raise"

TheError == IF outcome.kind = "raise" THEN outcome.exc ELSE outcome.value

\* the field and message the error of this state was built for
ExpectedField ==
    IF call.fn = "create_query_validation_exception" THEN call.field
    ELSE IF CallSkip < 0 THEN "skip" ELSE "limit"

ExpectedMsg ==
    IF call.fn = "create_query_validation_exception" THEN call.msg
    ELSE IF CallSkip < 0 THEN SkipMsg
    ELSE IF CallLimit.val <= 0 THEN LimitPositiveMsg
    ELSE LimitMaxMsg(max_limit)

EntryIsFor(entry, field, msg) ==
    /\ entry.type = "dict"
    /\ DOMAIN entry.items = {"loc", "msg", "type"}
    /\ entry.items.loc = PyList(<<"query", field>>)
    /\ entry.items.msg = msg
    /\ entry.items.type = "type_error.integer"

\* C6 as stated: every error carries status 422 and a detail payload that is
\* itself a one-element list holding the entry.
C6_DetailIsOneElementList ==
    ErrorMade =>
        /\ TheError.status_code = 422
        /\ TheError.detail.type = "list"
        /\ Len(TheError.detail.items) = 1
        /\ EntryIsFor(TheError.detail.items[1], ExpectedField, ExpectedMsg)

\* C6 as amended: every error carries status 422 and a detail payload that is
\* a mapping with the single key "detail" whose value is a one-element list
\* holding the entry {loc: ["query", field], msg, type: "type_error.integer"}.
C6_DetailWrapsOneElementList ==
    ErrorMade =>
        /\ TheError.status_code = 422
        /\ TheError.detail.type = "dict"
        /\ DOMAIN TheError.detail.items = {"detail"}
        /\ TheError.detail.items.detail.type = "list"
        /\ Len(TheError.detail.items.detail.items) = 1
        /\ EntryIsFor(TheError.detail.items.detail.items[1], ExpectedField, ExpectedMsg)

C6_Witness ==
    /\ PaginationDone
    /\ CallSkip >= 0
    /\ ~max_limit.isNone
    /\ RaisedFor("limit", LimitMaxMsg(max_limit))
    /\ ErrEntry(outcome.exc).type = "type_error.integer"
    /\ outcome.exc.status_code = 422

\* C9: an omitted limit takes the configured maximum and is validated like a
\* given one: a maximum M > 0 with skip >= 0 returns {skip, limit: M}, a
\* maximum <= 0 fails the positivity check, no maximum returns limit absent;
\* with both parameters omitted skip is 0.
C9_OmittedLimitUsesMaximum ==
    (PaginationDone /\ ~call.limit.given) =>
        /\ (CallSkip >= 0 /\ (~max_limit.isNone) /\ max_limit.val > 0)
               => outcome = Returned([skip |-> CallSkip, limit |-> max_limit])
        /\ (CallSkip >= 0 /\ (~max_limit.isNone) /\ max_limit.val <= 0)
               => RaisedFor("limit", LimitPositiveMsg)
        /\ (CallSkip >= 0 /\ max_limit.isNone)
               => outcome = Returned([skip |-> CallSkip, limit |-> NoneValue])
        /\ ((~call.skip.given) /\ outcome.kind = "return") => outcome.value.skip = 0

C9_Witness ==
    /\ PaginationDone
    /\ ~call.limit.given
    /\ ~call.skip.given
    /\ ~max_limit.isNone
    /\ outcome = Returned([skip |-> 0, limit |-> max_limit])

----------------------------------------------------------------------------
(* schema_factory and get_pk_type: what is checked.                        *)

FactoryReturned == call.fn = "schema_factory" /\ pc = "done" /\ outcome.kind = "return"

\* the arguments of the schema_factory call of this state, after defaults
CallPk == IF call.pk_field_name.given THEN call.pk_field_name.value ELSE "id"

CallSuffix == IF call.name_arg.given THEN call.name_arg.value ELSE "Create"

\* the fields of a descriptor and their types, read from its field-metadata
\* mapping, or from its legacy field list when it has no such mapping
FieldSet(d) ==
    IF d.has_model_fields THEN DOMAIN d.model_fields
    ELSE IF d.has_legacy_fields THEN DOMAIN d.legacy_fields
    ELSE {}

FieldType(d, n) ==
    IF d.has_model_fields THEN d.model_fields[n].annotation
    ELSE d.legacy_fields[n].type_

\* C7: the descriptor schema_factory returns is named <OriginalName><suffix>,
\* its fields are the original's fields minus the primary-key name, and each
\* keeps its type and is required.
C7_CreateSchemaDropsPk ==
    FactoryReturned =>
        /\ outcome.value.cls_name = call.schema_cls.cls_name \o CallSuffix
        /\ DOMAIN outcome.value.model_fields = FieldSet(call.schema_cls) \ {CallPk}
        /\ \A n \in DOMAIN outcome.value.model_fields :
               outcome.value.model_fields[n] =
                   [annotation |-> FieldType(call.schema_cls, n), required |-> TRUE]

C7_Witness ==
    /\ FactoryReturned
    /\ call.schema_cls.has_model_fields
    /\ CallPk \in DOMAIN call.schema_cls.model_fields
    /\ \E n \in DOMAIN call.schema_cls.model_fields :
           /\ n # CallPk
           /\ ~call.schema_cls.model_fields[n].required
           /\ outcome.value.model_fields[n].required
    /\ CallPk \notin DOMAIN outcome.value.model_fields

\* C8: get_pk_type returns the annotation of the field in model_fields when
\* it is there, also when the type hints give the name another type; else
\* the type hint of the name when there is one; else the integer type.
C8_PkTypePriority ==
    call.fn = "get_pk_type" =>
        LET d == call.schema
            f == call.pk_field
        IN  /\ outcome.kind = "return"
            /\ (d.has_model_fields /\ f \in DOMAIN d.model_fields)
                   => outcome.value = d.model_fields[f].annotation
            /\ (~(d.has_model_fields /\ f \in DOMAIN d.model_fields)
                    /\ f \in DOMAIN d.type_hints)
                   => outcome.value = d.type_hints[f]
            /\ (~(d.has_model_fields /\ f \in DOMAIN d.model_fields)
                    /\ f \notin DOMAIN d.type_hints)
                   => outcome.value = "int"

C8_Witness ==
    /\ call.fn = "get_pk_type"
    /\ call.schema.has_model_fields
    /\ call.pk_field \in DOMAIN call.schema.model_fields
    /\ call.pk_field \in DOMAIN call.schema.type_hints
    /\ call.schema.type_hints[call.pk_field] # call.schema.model_fields[call.pk_field].annotation
    /\ outcome = Returned(call.schema.model_fields[call.pk_field].annotation)

IsTypeError(r) == r.kind = "raise" /\ r.exc.cls = "TypeError"

\* C10: create_model is called with the newer convention first; the older
\* convention is tried only after the newer raised a TypeError, and once;
\* a newer call that succeeds or raises another error ends the call with
\* that result, and when both fail the second error reaches the caller as
\* raised, so no schema is returned.
C10_FallbackOrder ==
    call.fn = "schema_factory" =>
        /\ Len(attempts) <= 2
        /\ (pc = "create_model_v2") = (Len(attempts) = 0)
        /\ Len(attempts) >= 1 => attempts[1].convention = "positional"
        /\ (pc = "create_model_v1") => (Len(attempts) = 1 /\ IsTypeError(attempts[1].result))
        /\ Len(attempts) = 2 =>
               /\ IsTypeError(attempts[1].result)
               /\ attempts[2].convention = "__model_name"
               /\ pc = "done"
        /\ (pc = "done" /\ ~IsTypeError(attempts[1].result)) =>
               /\ Len(attempts) = 1
               /\ outcome = attempts[1].result
        /\ (pc = "done" /\ IsTypeError(attempts[1].result)) =>
               /\ Len(attempts) = 2
               /\ outcome = attempts[2].result
        /\ pc # "done" => outcome = NoOutcome

C10_Witness ==
    /\ call.fn = "schema_factory"
    /\ pc = "done"
    /\ Len(attempts) = 2
    /\ IsTypeError(attempts[1].result)
    /\ outcome = Raised(CreateModelError("ValueError", "__model_name"))

====
